---- MODULE Spec2Model ----
(***************************************************************************)
(* find-broken-links: the crawler task (crawl_and_collect_404s), the       *)
(* supervising loop of main, and the instrumented channel (DebugChannel /  *)
(* DebugSender) between them.                                              *)
(*                                                                         *)
(* Spec      the program: one crawler task, one supervisor, capacity 5.    *)
(* FairSpec  Spec plus the fairness the tokio scheduler gives both tasks.  *)
(* SendSpec  DebugSender::send called concurrently on several handles.     *)
(***************************************************************************)
EXTENDS Integers, Sequences, FiniteSets, TLC

\* ------------------------------------------------------------------ bounds
\* sender handles minted in SendSpec
NumSenders == 2
\* send calls started in SendSpec, over all handles
MaxSends == 2
\* largest buffer_size handed to DebugChannel::new in SendSpec
MaxCapacity == 1

\* ------------------------------------------------------- program constants
\* main.rs:38  DebugChannel::<Option<String>>::new(5)
BufferSize == 5

\* ------------------------------------------------------------ Option<T>
None == [tag |-> "None"]
Some(v) == [tag |-> "Some", val |-> v]

\* ()
Unit == [tag |-> "Unit"]

\* Result<T, E>
Ok(v) == [ok |-> TRUE, val |-> v]
Err(e) == [ok |-> FALSE, val |-> e]

\* ------------------------------------------------------------------ URLs
\* A parsed Url is a host (a tuple of characters) and a path (a tuple of
\* segments); Url::to_string is one-to-one on these, so the strings kept in
\* to_visit / visited are the same records.
Ex == <<"e", "x">>
Mex == <<"m", "e", "x">>
Org == <<"o", "r">>
Ip == <<"1">>

U(host, path) == [host |-> host, path |-> path]

\* Url::domain(): None for a host that is an IP address
Domain(url) == IF url.host = Ip THEN None ELSE Some(url.host)

\* hrefs as they appear in a page
Abs(host, path) == [kind |-> "abs", host |-> host, path |-> path]
RootRel(path) == [kind |-> "rootrel", host |-> <<>>, path |-> path]
Rel(path) == [kind |-> "rel", host |-> <<>>, path |-> path]
Bad == [kind |-> "bad", host |-> <<>>, path |-> <<>>]
Mailto == [kind |-> "mailto:", host |-> <<>>, path |-> <<>>]
Hash == [kind |-> "#", host |-> <<>>, path |-> <<>>]

\* the directory of a path: everything up to the last segment
DirOf(path) == IF path = <<>> THEN <<>> ELSE SubSeq(path, 1, Len(path) - 1)

\* Url::join
Join(base_url, link) ==
    CASE link.kind = "abs" -> Ok(U(link.host, link.path))
      [] link.kind = "rootrel" -> Ok(U(base_url.host, link.path))
      [] link.kind = "rel" -> Ok(U(base_url.host, DirOf(base_url.path) \o link.path))
      [] OTHER -> Err("ParseError")

make_absolute_url(base_url, link) == Join(base_url, link)

\* find_links: the hrefs of a page minus the denied protocols and links
denied_protocols == {"mailto:", "ftp:", "tel:"}
denied_links == {"#", "javascript:void(0)"}
Allowed(link) == link.kind \notin denied_protocols /\ link.kind \notin denied_links
find_links(html) == SelectSeq(html, Allowed)

\* str::contains on character tuples
Contains(s, t) ==
    \E i \in 0..(Len(s) - Len(t)) : SubSeq(s, i + 1, i + Len(t)) = t

\* a contains that never finds its element
VecContains_Never(v, x) == FALSE

\* Vec::contains
VecContains(v, x) == \E i \in 1..Len(v) : v[i] = x

\* ----------------------------------------------------------------- sites
\* What fetch_html answers for a URL: a status and, on success, the hrefs of
\* the page. A URL the site does not know answers 404.
Root == U(Ex, <<>>)
IpRoot == U(Ip, <<>>)
A == U(Ex, <<"a">>)
DP == U(Ex, <<"d", "p">>)
Q == U(Ex, <<"q">>)
M == U(Mex, <<>>)

\* one domain: a cycle, a repeated link, a self link, a relative link
Links1 ==
    (Root :> <<RootRel(<<"a">>), RootRel(<<"d", "p">>), RootRel(<<"a">>), Hash>>)
    @@ (A :> <<RootRel(<<>>), Mailto>>)
    @@ (DP :> <<Rel(<<"q">>), RootRel(<<"d", "p">>)>>)
    @@ (Q :> <<>>)

\* several domains, a link with no domain, a link that does not parse
Links2 ==
    (Root :> <<Abs(Mex, <<>>), Abs(Org, <<>>), Abs(Ip, <<>>), RootRel(<<"a">>)>>)
    @@ (M :> <<RootRel(<<"a">>)>>)
    @@ (A :> <<Bad, RootRel(<<"q">>)>>)

\* a page of dead links, more than the channel buffers
Links3 ==
    (Root :> <<RootRel(<<"m1">>), RootRel(<<"m2">>), RootRel(<<"m3">>),
               RootRel(<<"m4">>), RootRel(<<"m5">>), RootRel(<<"m1">>)>>)

LinkMaps == {Links1, Links2, Links3}
Status == {"ok", "404", "err"}

Sites ==
    UNION { { [u \in DOMAIN L |-> [status |-> st[u], hrefs |-> L[u]]] :
                st \in [DOMAIN L -> Status] } : L \in LinkMaps }

\* fetch_html: Ok(html) on success, else the error with its status
fetch_html(s, u) ==
    IF u \in DOMAIN s
    THEN IF s[u].status = "ok" THEN Ok(s[u].hrefs) ELSE Err(s[u].status)
    ELSE Err("404")

\* ------------------------------------------------------------------ state
VARIABLES
    site,            \* the web as fetch_html sees it
    root_url,        \* parsed_url handed to the crawler
    fuzzy_match_string,
    \* DebugChannel
    capacity,        \* buffer_size of mpsc::channel
    buffer,          \* messages sent and not yet received
    senders,         \* live mpsc::Sender handles (the channel's own included)
    rxOpen,          \* the mpsc::Receiver has not been dropped
    counter,         \* AtomicUsize counter
    max_size,        \* AtomicUsize max_size
    \* one DebugSender::send call per handle
    spc,             \* where the handle's send call stands
    current_size,    \* its local current_size
    lmax,            \* its local max_size
    value,           \* the message it sends
    send_result,     \* what sender.send returned
    calls,           \* send calls the handle has started
    \* crawl_and_collect_404s
    epc,             \* where the crawler task stands
    root_domain,
    to_visit,
    visited,
    url,             \* the URL popped in this iteration
    links,           \* links of the page still to be looked at
    \* main
    sup,             \* where the supervisor stands
    not_found_urls,
    not_found_errors, \* the records handed to save_not_found_errors
    reported,        \* what get_max_buffer_size returned at the end of main
    \* history
    sent,            \* messages the channel accepted, in order
    fetched,         \* URLs handed to fetch_html, in order
    observed,        \* what recv returned to the consumer, in order
    peakUndelivered, \* the most messages sent and not yet received at once
    popped,          \* URLs taken from to_visit, in order
    failedCas        \* compare_exchange calls that returned Err

chanVars == <<capacity, buffer, senders, rxOpen, counter, max_size>>
sendVars == <<spc, current_size, lmax, value, send_result, calls>>
crawlVars == <<epc, root_domain, to_visit, visited, url, links>>
mainVars == <<sup, not_found_urls, not_found_errors, reported>>
histVars == <<sent, fetched, observed, peakUndelivered, popped, failedCas>>
inputVars == <<site, root_url, fuzzy_match_string>>
vars == <<inputVars, chanVars, sendVars, crawlVars, mainVars, histVars>>

\* the crawler's handle
Tx == 1
Handles == DOMAIN spc

Max(a, b) == IF a >= b THEN a ELSE b

\* ------------------------------------------------------- DebugSender::send
\* the call is entered: nothing has run yet
StartSend(h, m) ==
    /\ spc' = [spc EXCEPT ![h] = "fetch_add"]
    /\ value' = [value EXCEPT ![h] = m]
    /\ calls' = [calls EXCEPT ![h] = @ + 1]
    /\ UNCHANGED <<current_size, lmax, send_result>>

\* messages handed to send and not yet returned by recv: those in the
\* buffer and those of the send calls on their way to it
Undelivered ==
    Len(buffer)
    + Cardinality({h \in Handles : spc[h] \in {"load", "cas", "send", "parked"}})

\* let current_size = self.counter.fetch_add(1) + 1
SendFetchAdd(h) ==
    /\ spc[h] = "fetch_add"
    /\ counter' = counter + 1
    /\ current_size' = [current_size EXCEPT ![h] = counter + 1]
    /\ spc' = [spc EXCEPT ![h] = "load"]
    /\ peakUndelivered' = Max(peakUndelivered, Undelivered + 1)
    /\ UNCHANGED <<capacity, buffer, senders, rxOpen, max_size>>
    /\ UNCHANGED <<lmax, value, send_result, calls>>
    /\ UNCHANGED <<inputVars, crawlVars, mainVars>>
    /\ UNCHANGED <<sent, fetched, observed, popped, failedCas>>

\* let mut max_size = self.max_size.load()
SendLoad(h) ==
    /\ spc[h] = "load"
    /\ lmax' = [lmax EXCEPT ![h] = max_size]
    /\ spc' = [spc EXCEPT ![h] = "cas"]
    /\ UNCHANGED <<current_size, value, send_result, calls>>
    /\ UNCHANGED <<inputVars, chanVars, crawlVars, mainVars, histVars>>

\* a compare_exchange that stores without comparing
CompareExchange_Blind(expected, new) == [stored |-> new, result |-> Ok(max_size)]

\* AtomicUsize::compare_exchange(expected, new) on max_size
CompareExchange(expected, new) ==
    IF max_size = expected
    THEN [stored |-> new, result |-> Ok(max_size)]
    ELSE [stored |-> max_size, result |-> Err(max_size)]

\* SendCas giving up after a compare_exchange that returned Err
SendCas_NoRetry(h) ==
    /\ spc[h] = "cas"
    /\ IF current_size[h] > lmax[h]
       THEN LET x == CompareExchange(lmax[h], current_size[h]) IN
            /\ max_size' = x.stored
            /\ spc' = [spc EXCEPT ![h] = "send"]
            /\ IF x.result.ok
               THEN UNCHANGED <<lmax, failedCas>>
               ELSE /\ lmax' = [lmax EXCEPT ![h] = x.result.val]
                    /\ failedCas' = failedCas + 1
       ELSE /\ spc' = [spc EXCEPT ![h] = "send"]
            /\ UNCHANGED <<max_size, lmax, failedCas>>
    /\ UNCHANGED <<capacity, buffer, senders, rxOpen, counter>>
    /\ UNCHANGED <<current_size, value, send_result, calls>>
    /\ UNCHANGED <<inputVars, crawlVars, mainVars>>
    /\ UNCHANGED <<sent, fetched, observed, peakUndelivered, popped>>

\* one turn of: while current_size > max_size { compare_exchange ... }
SendCas(h) ==
    /\ spc[h] = "cas"
    /\ IF current_size[h] > lmax[h]
       THEN LET x == CompareExchange(lmax[h], current_size[h]) IN
            /\ max_size' = x.stored
            /\ IF x.result.ok
               THEN /\ spc' = [spc EXCEPT ![h] = "send"]
                    /\ UNCHANGED <<lmax, failedCas>>
               ELSE /\ spc' = spc
                    /\ lmax' = [lmax EXCEPT ![h] = x.result.val]
                    /\ failedCas' = failedCas + 1
       ELSE /\ spc' = [spc EXCEPT ![h] = "send"]
            /\ UNCHANGED <<max_size, lmax, failedCas>>
    /\ UNCHANGED <<capacity, buffer, senders, rxOpen, counter>>
    /\ UNCHANGED <<current_size, value, send_result, calls>>
    /\ UNCHANGED <<inputVars, crawlVars, mainVars>>
    /\ UNCHANGED <<sent, fetched, observed, peakUndelivered, popped>>

\* self.sender.send(value).await finds the buffer full and suspends
SendPark(h) ==
    /\ spc[h] = "send"
    /\ rxOpen /\ Len(buffer) >= capacity
    /\ spc' = [spc EXCEPT ![h] = "parked"]
    /\ UNCHANGED <<current_size, lmax, value, send_result, calls>>
    /\ UNCHANGED <<inputVars, chanVars, crawlVars, mainVars, histVars>>

\* SendDeliver returning the error at once when the receiver is gone
SendDeliver_FailReturns(h) ==
    /\ spc[h] \in {"send", "parked"}
    /\ ~rxOpen \/ Len(buffer) < capacity
    /\ IF rxOpen
       THEN /\ buffer' = Append(buffer, value[h])
            /\ sent' = Append(sent, value[h])
            /\ send_result' = [send_result EXCEPT ![h] = Ok(Unit)]
            /\ spc' = [spc EXCEPT ![h] = "fetch_sub"]
       ELSE /\ send_result' = [send_result EXCEPT ![h] = Err(value[h])]
            /\ spc' = [spc EXCEPT ![h] = "idle"]
            /\ UNCHANGED <<buffer, sent>>
    /\ UNCHANGED <<capacity, senders, rxOpen, counter, max_size>>
    /\ UNCHANGED <<current_size, lmax, value, calls>>
    /\ UNCHANGED <<inputVars, crawlVars, mainVars>>
    /\ UNCHANGED <<fetched, observed, peakUndelivered, popped, failedCas>>

\* self.sender.send(value).await completes: the message is in the buffer, or
\* the receiver is gone and the message comes back in the error
SendDeliver(h) ==
    /\ spc[h] \in {"send", "parked"}
    /\ ~rxOpen \/ Len(buffer) < capacity
    /\ IF rxOpen
       THEN /\ buffer' = Append(buffer, value[h])
            /\ sent' = Append(sent, value[h])
            /\ send_result' = [send_result EXCEPT ![h] = Ok(Unit)]
       ELSE /\ send_result' = [send_result EXCEPT ![h] = Err(value[h])]
            /\ UNCHANGED <<buffer, sent>>
    /\ spc' = [spc EXCEPT ![h] = "fetch_sub"]
    /\ UNCHANGED <<capacity, senders, rxOpen, counter, max_size>>
    /\ UNCHANGED <<current_size, lmax, value, calls>>
    /\ UNCHANGED <<inputVars, crawlVars, mainVars>>
    /\ UNCHANGED <<fetched, observed, peakUndelivered, popped, failedCas>>

\* SendFetchSub returning without the fetch_sub
SendFetchSub_NoDecrement(h) ==
    /\ spc[h] = "fetch_sub"
    /\ counter' = counter
    /\ spc' = [spc EXCEPT ![h] = "idle"]
    /\ current_size' = [current_size EXCEPT ![h] = 0]
    /\ lmax' = [lmax EXCEPT ![h] = 0]
    /\ value' = [value EXCEPT ![h] = None]
    /\ UNCHANGED <<capacity, buffer, senders, rxOpen, max_size>>
    /\ UNCHANGED <<send_result, calls>>
    /\ UNCHANGED <<inputVars, crawlVars, mainVars, histVars>>

\* self.counter.fetch_sub(1); send_result: the call returns and its locals
\* are gone
SendFetchSub(h) ==
    /\ spc[h] = "fetch_sub"
    /\ counter' = counter - 1
    /\ spc' = [spc EXCEPT ![h] = "idle"]
    /\ current_size' = [current_size EXCEPT ![h] = 0]
    /\ lmax' = [lmax EXCEPT ![h] = 0]
    /\ value' = [value EXCEPT ![h] = None]
    /\ UNCHANGED <<capacity, buffer, senders, rxOpen, max_size>>
    /\ UNCHANGED <<send_result, calls>>
    /\ UNCHANGED <<inputVars, crawlVars, mainVars, histVars>>

\* ------------------------------------------------------ DebugChannel::recv
\* mpsc::Receiver::recv has something to return
RecvReady == buffer # <<>> \/ senders = 0

\* a recv that hands out the newest message while removing the oldest
RecvResult_Newest == IF buffer # <<>> THEN Some(buffer[Len(buffer)]) ELSE None

\* Some(message) while the buffer holds one, None once every sender is gone
RecvResult == IF buffer # <<>> THEN Some(Head(buffer)) ELSE None

RecvBuffer == IF buffer # <<>> THEN Tail(buffer) ELSE buffer

\* ------------------------------------------------- crawl_and_collect_404s
\* the task ends and its DebugSender is dropped
DropTx == senders' = senders - 1

\* root_domain = root_url.domain().ok_or_else(..)?; to_visit = vec![root_url]
EngineStart ==
    /\ epc = "start"
    /\ IF Domain(root_url) = None
       THEN /\ epc' = "aborted"
            /\ DropTx
            /\ UNCHANGED <<root_domain, to_visit, visited>>
       ELSE /\ epc' = "pop"
            /\ root_domain' = Domain(root_url)
            /\ to_visit' = <<root_url>>
            /\ visited' = <<>>
            /\ UNCHANGED senders
    /\ UNCHANGED <<capacity, buffer, rxOpen, counter, max_size, url, links>>
    /\ UNCHANGED <<inputVars, sendVars, mainVars, histVars>>

\* EnginePop returning once to_visit is empty, with no tx.send(None)
EnginePop_NoDone ==
    /\ epc = "pop"
    /\ IF to_visit = <<>>
       THEN /\ epc' = "done"
            /\ DropTx
            /\ UNCHANGED <<to_visit, url, popped>>
       ELSE /\ to_visit' = SubSeq(to_visit, 1, Len(to_visit) - 1)
            /\ popped' = Append(popped, to_visit[Len(to_visit)])
            /\ IF VecContains(visited, to_visit[Len(to_visit)])
               THEN UNCHANGED <<epc, url>>
               ELSE /\ epc' = "fetch"
                    /\ url' = to_visit[Len(to_visit)]
            /\ UNCHANGED senders
    /\ UNCHANGED <<root_domain, visited, links>>
    /\ UNCHANGED <<capacity, buffer, rxOpen, counter, max_size>>
    /\ UNCHANGED <<inputVars, sendVars, mainVars>>
    /\ UNCHANGED <<sent, fetched, observed, peakUndelivered, failedCas>>

\* EnginePop reading the last entry of to_visit without removing it
EnginePop_KeepsEntry ==
    /\ epc = "pop"
    /\ IF to_visit = <<>>
       THEN /\ epc' = "send_done"
            /\ StartSend(Tx, None)
            /\ UNCHANGED <<to_visit, url, popped>>
       ELSE /\ to_visit' = to_visit
            /\ popped' = Append(popped, to_visit[Len(to_visit)])
            /\ IF VecContains(visited, to_visit[Len(to_visit)])
               THEN UNCHANGED <<epc, url>>
               ELSE /\ epc' = "fetch"
                    /\ url' = to_visit[Len(to_visit)]
            /\ UNCHANGED sendVars
    /\ UNCHANGED <<root_domain, visited, links>>
    /\ UNCHANGED <<inputVars, chanVars, mainVars>>
    /\ UNCHANGED <<sent, fetched, observed, peakUndelivered, failedCas>>

\* while let Some(url) = to_visit.pop() { if visited.contains(&url) { continue } ..
\* and, once to_visit is empty, the call of tx.send(None)
EnginePop ==
    /\ epc = "pop"
    /\ IF to_visit = <<>>
       THEN /\ epc' = "send_done"
            /\ StartSend(Tx, None)
            /\ UNCHANGED <<to_visit, url, popped>>
       ELSE /\ to_visit' = SubSeq(to_visit, 1, Len(to_visit) - 1)
            /\ popped' = Append(popped, to_visit[Len(to_visit)])
            /\ IF VecContains(visited, to_visit[Len(to_visit)])
               THEN UNCHANGED <<epc, url>>
               ELSE /\ epc' = "fetch"
                    /\ url' = to_visit[Len(to_visit)]
            /\ UNCHANGED sendVars
    /\ UNCHANGED <<root_domain, visited, links>>
    /\ UNCHANGED <<inputVars, chanVars, mainVars>>
    /\ UNCHANGED <<sent, fetched, observed, peakUndelivered, failedCas>>

\* EngineFetch whose 404 arm sends None in place of Some(url)
EngineFetch_SendsNone ==
    /\ epc = "fetch"
    /\ fetched' = Append(fetched, url)
    /\ LET html_result == fetch_html(site, url) IN
       IF html_result.ok
       THEN /\ links' = find_links(html_result.val)
            /\ epc' = "links"
            /\ UNCHANGED <<senders, sendVars>>
       ELSE IF html_result.val = "404"
       THEN /\ StartSend(Tx, None)
            /\ epc' = "send_found"
            /\ UNCHANGED <<senders, links>>
       ELSE /\ epc' = "aborted"
            /\ DropTx
            /\ UNCHANGED <<links, sendVars>>
    /\ UNCHANGED <<root_domain, to_visit, visited, url>>
    /\ UNCHANGED <<capacity, buffer, rxOpen, counter, max_size>>
    /\ UNCHANGED <<inputVars, mainVars, sent, observed, peakUndelivered, popped, failedCas>>

\* EngineFetch treating every failed fetch as a page without links
EngineFetch_IgnoresError ==
    /\ epc = "fetch"
    /\ fetched' = Append(fetched, url)
    /\ LET html_result == fetch_html(site, url) IN
       IF html_result.ok
       THEN /\ links' = find_links(html_result.val)
            /\ epc' = "links"
            /\ UNCHANGED <<senders, sendVars>>
       ELSE IF html_result.val = "404"
       THEN /\ StartSend(Tx, Some(url))
            /\ epc' = "send_found"
            /\ UNCHANGED <<senders, links>>
       ELSE /\ links' = <<>>
            /\ epc' = "links"
            /\ UNCHANGED <<senders, sendVars>>
    /\ UNCHANGED <<root_domain, to_visit, visited, url>>
    /\ UNCHANGED <<capacity, buffer, rxOpen, counter, max_size>>
    /\ UNCHANGED <<inputVars, mainVars, sent, observed, peakUndelivered, popped, failedCas>>

\* fetch_html(&url).await and the match on its result
EngineFetch ==
    /\ epc = "fetch"
    /\ fetched' = Append(fetched, url)
    /\ LET html_result == fetch_html(site, url) IN
       IF html_result.ok
       THEN /\ links' = find_links(html_result.val)
            /\ epc' = "links"
            /\ UNCHANGED <<senders, sendVars>>
       ELSE IF html_result.val = "404"
       THEN /\ StartSend(Tx, Some(url))
            /\ epc' = "send_found"
            /\ UNCHANGED <<senders, links>>
       ELSE /\ epc' = "aborted"
            /\ DropTx
            /\ UNCHANGED <<links, sendVars>>
    /\ UNCHANGED <<root_domain, to_visit, visited, url>>
    /\ UNCHANGED <<capacity, buffer, rxOpen, counter, max_size>>
    /\ UNCHANGED <<inputVars, mainVars, sent, observed, peakUndelivered, popped, failedCas>>

\* a scope test that lets every domain through
InScope_All(domain) == TRUE

\* the scope test of one resolved link
InScope(domain) ==
    LET matches_exact == root_domain = Some(domain)
        matches_fuzzy == IF fuzzy_match_string = None
                         THEN FALSE
                         ELSE Contains(domain, fuzzy_match_string.val)
    IN  matches_exact \/ matches_fuzzy

\* EngineLink skipping a link that does not parse
EngineLink_SkipsBad ==
    /\ epc = "links"
    /\ links # <<>>
    /\ LET absolute_link == make_absolute_url(root_url, Head(links)) IN
       IF ~absolute_link.ok
       THEN /\ links' = Tail(links)
            /\ UNCHANGED <<epc, senders, to_visit>>
       ELSE /\ links' = Tail(links)
            /\ to_visit' =
                 IF /\ Domain(absolute_link.val) # None
                    /\ InScope(Domain(absolute_link.val).val)
                    /\ ~VecContains(visited, absolute_link.val)
                 THEN Append(to_visit, absolute_link.val)
                 ELSE to_visit
            /\ UNCHANGED <<epc, senders>>
    /\ UNCHANGED <<root_domain, visited, url>>
    /\ UNCHANGED <<capacity, buffer, rxOpen, counter, max_size>>
    /\ UNCHANGED <<inputVars, sendVars, mainVars, histVars>>

\* EngineLink pushing a link without looking it up in visited
EngineLink_NoVisitedCheck ==
    /\ epc = "links"
    /\ links # <<>>
    /\ LET absolute_link == make_absolute_url(root_url, Head(links)) IN
       IF ~absolute_link.ok
       THEN /\ epc' = "aborted"
            /\ DropTx
            /\ UNCHANGED <<links, to_visit>>
       ELSE /\ links' = Tail(links)
            /\ to_visit' =
                 IF /\ Domain(absolute_link.val) # None
                    /\ InScope(Domain(absolute_link.val).val)
                 THEN Append(to_visit, absolute_link.val)
                 ELSE to_visit
            /\ UNCHANGED <<epc, senders>>
    /\ UNCHANGED <<root_domain, visited, url>>
    /\ UNCHANGED <<capacity, buffer, rxOpen, counter, max_size>>
    /\ UNCHANGED <<inputVars, sendVars, mainVars, histVars>>

\* one turn of: for link in links { .. }
EngineLink ==
    /\ epc = "links"
    /\ links # <<>>
    /\ LET absolute_link == make_absolute_url(root_url, Head(links)) IN
       IF ~absolute_link.ok
       THEN /\ epc' = "aborted"
            /\ DropTx
            /\ UNCHANGED <<links, to_visit>>
       ELSE /\ links' = Tail(links)
            /\ to_visit' =
                 IF /\ Domain(absolute_link.val) # None
                    /\ InScope(Domain(absolute_link.val).val)
                    /\ ~VecContains(visited, absolute_link.val)
                 THEN Append(to_visit, absolute_link.val)
                 ELSE to_visit
            /\ UNCHANGED <<epc, senders>>
    /\ UNCHANGED <<root_domain, visited, url>>
    /\ UNCHANGED <<capacity, buffer, rxOpen, counter, max_size>>
    /\ UNCHANGED <<inputVars, sendVars, mainVars, histVars>>

\* visited.push(url), after the links of a page or after tx.send(Some(url))
EngineVisited ==
    /\ \/ epc = "links" /\ links = <<>>
       \/ epc = "send_found" /\ spc[Tx] = "idle"
    /\ visited' = Append(visited, url)
    /\ epc' = "pop"
    /\ UNCHANGED <<root_domain, to_visit, url, links>>
    /\ UNCHANGED <<inputVars, chanVars, sendVars, mainVars, histVars>>

\* tx.send(None) has returned: Ok(())
EngineReturn ==
    /\ epc = "send_done" /\ spc[Tx] = "idle"
    /\ epc' = "done"
    /\ DropTx
    /\ UNCHANGED <<root_domain, to_visit, visited, url, links>>
    /\ UNCHANGED <<capacity, buffer, rxOpen, counter, max_size>>
    /\ UNCHANGED <<inputVars, sendVars, mainVars, histVars>>

\* main has returned and the runtime shuts down: a task suspended in an
\* await is dropped where it stands
EngineShutdown ==
    /\ ~rxOpen
    /\ epc = "fetch" \/ spc[Tx] = "parked"
    /\ epc' = "dropped"
    /\ spc' = [spc EXCEPT ![Tx] = IF @ = "parked" THEN "dropped" ELSE @]
    /\ DropTx
    /\ UNCHANGED <<root_domain, to_visit, visited, url, links>>
    /\ UNCHANGED <<capacity, buffer, rxOpen, counter, max_size>>
    /\ UNCHANGED <<current_size, lmax, value, send_result, calls>>
    /\ UNCHANGED <<inputVars, mainVars, histVars>>

\* ------------------------------------------------------------------- main
\* SupRecv in a loop that the ctrl_c arm does not leave
SupRecv_AfterCtrlC ==
    /\ sup \in {"looping", "ctrl_c"}
    /\ rxOpen
    /\ RecvReady
    /\ observed' = Append(observed, RecvResult)
    /\ buffer' = RecvBuffer
    /\ IF RecvResult = None
       THEN sup' = "closed" /\ UNCHANGED not_found_urls
       ELSE IF RecvResult.val = None
       THEN sup' = "done" /\ UNCHANGED not_found_urls
       ELSE /\ not_found_urls' = Append(not_found_urls, RecvResult.val.val)
            /\ UNCHANGED sup
    /\ UNCHANGED <<capacity, senders, rxOpen, counter, max_size>>
    /\ UNCHANGED <<not_found_errors, reported>>
    /\ UNCHANGED <<inputVars, sendVars, crawlVars>>
    /\ UNCHANGED <<sent, fetched, peakUndelivered, popped, failedCas>>

\* the recv arm of select!, with its match
SupRecv ==
    /\ sup = "looping"
    /\ RecvReady
    /\ observed' = Append(observed, RecvResult)
    /\ buffer' = RecvBuffer
    /\ IF RecvResult = None
       THEN sup' = "closed" /\ UNCHANGED not_found_urls
       ELSE IF RecvResult.val = None
       THEN sup' = "done" /\ UNCHANGED not_found_urls
       ELSE /\ not_found_urls' = Append(not_found_urls, RecvResult.val.val)
            /\ UNCHANGED sup
    /\ UNCHANGED <<capacity, senders, rxOpen, counter, max_size>>
    /\ UNCHANGED <<not_found_errors, reported>>
    /\ UNCHANGED <<inputVars, sendVars, crawlVars>>
    /\ UNCHANGED <<sent, fetched, peakUndelivered, popped, failedCas>>

\* the ctrl_c arm of select!
SupCtrlC ==
    /\ sup = "looping"
    /\ sup' = "ctrl_c"
    /\ UNCHANGED <<not_found_urls, not_found_errors, reported>>
    /\ UNCHANGED <<inputVars, chanVars, sendVars, crawlVars, histVars>>

NotFoundError(u) == [url |-> u, title |-> None]

\* after the loop: the records are built and handed on, get_max_buffer_size
\* is read, and main returns, dropping debug_channel
MainExit ==
    /\ sup \in {"done", "closed", "ctrl_c"}
    /\ rxOpen
    /\ not_found_errors' =
         Some([i \in 1..Len(not_found_urls) |-> NotFoundError(not_found_urls[i])])
    /\ reported' = Some(max_size)
    /\ rxOpen' = FALSE
    /\ buffer' = <<>>
    /\ senders' = senders - 1
    /\ UNCHANGED <<capacity, counter, max_size, sup, not_found_urls>>
    /\ UNCHANGED <<inputVars, sendVars, crawlVars, histVars>>

\* ---------------------------------------------------------- the program
Init ==
    /\ site \in Sites
    /\ root_url \in {Root, IpRoot}
    /\ fuzzy_match_string \in {None, Some(Ex)}
    /\ capacity = BufferSize
    /\ buffer = <<>>
    /\ senders = 2
    /\ rxOpen = TRUE
    /\ counter = 0
    /\ max_size = 0
    /\ spc = [h \in {Tx} |-> "idle"]
    /\ current_size = [h \in {Tx} |-> 0]
    /\ lmax = [h \in {Tx} |-> 0]
    /\ value = [h \in {Tx} |-> None]
    /\ send_result = [h \in {Tx} |-> Ok(Unit)]
    /\ calls = [h \in {Tx} |-> 0]
    /\ epc = "start"
    /\ root_domain = None
    /\ to_visit = <<>>
    /\ visited = <<>>
    /\ url = None
    /\ links = <<>>
    /\ sup = "looping"
    /\ not_found_urls = <<>>
    /\ not_found_errors = None
    /\ reported = None
    /\ sent = <<>>
    /\ fetched = <<>>
    /\ observed = <<>>
    /\ peakUndelivered = 0
    /\ popped = <<>>
    /\ failedCas = 0

\* the steps of the send calls in progress, on any handle
Send ==
    \/ \E h \in Handles : SendFetchAdd(h)
    \/ \E h \in Handles : SendLoad(h)
    \/ \E h \in Handles : SendCas(h)
    \/ \E h \in Handles : SendPark(h)
    \/ \E h \in Handles : SendDeliver(h)
    \/ \E h \in Handles : SendFetchSub(h)

Crawler ==
    \/ EngineStart
    \/ EnginePop
    \/ EngineFetch
    \/ EngineLink
    \/ EngineVisited
    \/ EngineReturn
    \/ Send

Next ==
    \/ Crawler
    \/ EngineShutdown
    \/ SupRecv
    \/ SupCtrlC
    \/ MainExit

Spec == Init /\ [][Next]_vars

\* Both tasks are scheduled by the tokio runtime whenever they can run; the
\* interrupt is the operator's and may never come.
FairSpec ==
    /\ Spec
    /\ WF_vars(Crawler)
    /\ WF_vars(SupRecv)
    /\ WF_vars(MainExit)

\* --------------------------------------- concurrent sends on one channel
\* a handle calls send
RECURSIVE SumOver(_, _)
SumOver(f, S) ==
    IF S = {} THEN 0
    ELSE LET x == CHOOSE y \in S : TRUE IN f[x] + SumOver(f, S \ {x})

SendCall(h) ==
    /\ spc[h] = "idle"
    /\ SumOver(calls, Handles) < MaxSends
    /\ StartSend(h, Some(Root))
    /\ UNCHANGED <<inputVars, chanVars, crawlVars, mainVars, histVars>>

\* the consumer calls recv
ChanRecv ==
    /\ rxOpen
    /\ RecvReady
    /\ observed' = Append(observed, RecvResult)
    /\ buffer' = RecvBuffer
    /\ UNCHANGED <<capacity, senders, rxOpen, counter, max_size>>
    /\ UNCHANGED <<inputVars, sendVars, crawlVars, mainVars>>
    /\ UNCHANGED <<sent, fetched, peakUndelivered, popped, failedCas>>

\* the consumer drops the channel
ChanDrop ==
    /\ rxOpen
    /\ rxOpen' = FALSE
    /\ buffer' = <<>>
    /\ senders' = senders - 1
    /\ UNCHANGED <<capacity, counter, max_size>>
    /\ UNCHANGED <<inputVars, sendVars, crawlVars, mainVars, histVars>>

SendInit ==
    /\ site = <<>>
    /\ root_url = Root
    /\ fuzzy_match_string = None
    /\ capacity \in 1..MaxCapacity
    /\ buffer = <<>>
    /\ senders = NumSenders + 1
    /\ rxOpen = TRUE
    /\ counter = 0
    /\ max_size = 0
    /\ spc = [h \in 1..NumSenders |-> "idle"]
    /\ current_size = [h \in 1..NumSenders |-> 0]
    /\ lmax = [h \in 1..NumSenders |-> 0]
    /\ value = [h \in 1..NumSenders |-> None]
    /\ send_result = [h \in 1..NumSenders |-> Ok(Unit)]
    /\ calls = [h \in 1..NumSenders |-> 0]
    /\ epc = "none"
    /\ root_domain = None
    /\ to_visit = <<>>
    /\ visited = <<>>
    /\ url = None
    /\ links = <<>>
    /\ sup = "none"
    /\ not_found_urls = <<>>
    /\ not_found_errors = None
    /\ reported = None
    /\ sent = <<>>
    /\ fetched = <<>>
    /\ observed = <<>>
    /\ peakUndelivered = 0
    /\ popped = <<>>
    /\ failedCas = 0

SendNext ==
    \/ \E h \in Handles : SendCall(h)
    \/ Send
    \/ ChanRecv
    \/ ChanDrop

SendSpec == SendInit /\ [][SendNext]_vars

\* ================================================================ claims
Last(q) == q[Len(q)]
IsPrefix(p, q) == Len(p) <= Len(q) /\ SubSeq(q, 1, Len(p)) = p
Count(q, x) == Cardinality({i \in 1..Len(q) : q[i] = x})
NoDuplicates(q) == \A i, j \in 1..Len(q) : q[i] = q[j] => i = j
\* the URLs of the Found messages of a sequence of messages, in order
IsFound(m) == m # None
FoundUrls(q) == [i \in 1..Len(SelectSeq(q, IsFound)) |-> SelectSeq(q, IsFound)[i].val]

\* C1: when the crawler aborts on a fatal error and no interrupt ever comes,
\* the supervisor eventually sees the channel closed and stops looping.
C1_AbortClosesChannel ==
    [](sup # "ctrl_c") => [](epc = "aborted" => <>(sup = "closed"))

C3_DoneIsLast ==
    /\ [](sup = "done" => /\ Last(observed) = Some(None)
                          /\ Count(observed, Some(None)) = 1)
    /\ [][sup = "done" => /\ observed' = observed
                          /\ not_found_urls' = not_found_urls]_vars
    /\ [][Count(sent, None) > 0 => sent' = sent /\ calls' = calls]_vars

C3_Witness ==
    /\ sup = "done"
    /\ Len(observed) >= 3
    /\ ~rxOpen
    /\ epc = "done"

\* C4 as stated: when the crawler's task has ended, exactly one Done has been
\* sent and it is the last message sent.
C4_ExactlyOneDone ==
    epc \in {"done", "aborted", "dropped"}
        => Count(sent, None) = 1 /\ Last(sent) = None

\* C4 amended: at most one Done is ever sent and nothing is sent after it; a
\* crawler that returns after its loop with the send of Done accepted has
\* sent exactly one, a crawler that aborts has sent none.
C4_AtMostOneDoneLast ==
    /\ Count(sent, None) <= 1
    /\ Count(sent, None) = 1 => Last(sent) = None
    /\ epc = "done" /\ send_result[Tx].ok => Count(sent, None) = 1
    /\ epc = "aborted" => Count(sent, None) = 0

C4_Witness ==
    /\ epc = "done"
    /\ send_result[Tx].ok
    /\ Len(sent) >= 3
    /\ Last(sent) = None

\* C5: the supervisor's list is a prefix of the URLs of the Found messages
\* sent, in send order; nothing is lost, repeated or reordered on the way.
C5_Fifo ==
    /\ IsPrefix(not_found_urls, FoundUrls(sent))
    /\ rxOpen => sent = [i \in 1..Len(observed) |-> observed[i].val] \o buffer

C5_Witness ==
    /\ Len(not_found_urls) >= 2
    /\ Len(buffer) >= 2
    /\ not_found_urls[1] # not_found_urls[2]

\* C6: the interrupt can end the loop whatever the channel holds; the step
\* that ends it leaves the list as it is, nothing is appended afterwards, and
\* the records handed on are exactly that list.
C6_CancelKeepsList ==
    /\ [](sup = "looping" => ENABLED SupCtrlC)
    /\ [][sup = "looping" /\ sup' = "ctrl_c"
            => not_found_urls' = not_found_urls /\ buffer' = buffer]_vars
    /\ [][sup = "ctrl_c" => sup' = "ctrl_c" /\ not_found_urls' = not_found_urls]_vars
    /\ [](sup = "ctrl_c" /\ not_found_errors # None
            => /\ Len(not_found_errors.val) = Len(not_found_urls)
               /\ \A i \in 1..Len(not_found_urls) :
                    not_found_errors.val[i] = NotFoundError(not_found_urls[i]))

C6_Witness ==
    /\ sup = "ctrl_c"
    /\ not_found_errors # None
    /\ Len(not_found_urls) >= 1
    /\ Len(sent) > Len(not_found_urls) + 1

\* C7: no URL is fetched twice or put in visited twice, and popping a URL
\* that is already in visited fetches nothing, sends nothing and adds nothing
\* to visited.
C7_FetchedOnce ==
    /\ [](NoDuplicates(fetched) /\ NoDuplicates(visited))
    /\ [][(/\ epc = "pop"
           /\ to_visit # <<>>
           /\ VecContains(visited, Last(to_visit))
           /\ popped' # popped)
            => /\ fetched' = fetched
               /\ calls' = calls
               /\ sent' = sent
               /\ visited' = visited
               /\ epc' = "pop"]_vars

C7_Witness ==
    /\ epc = "done"
    /\ \E i, j \in 1..Len(popped) : i < j /\ popped[i] = popped[j]
    /\ Len(fetched) >= 3

\* the send calls between their fetch_add and the end of their update of
\* max_size
Updating == {h \in Handles : spc[h] \in {"load", "cas"}}

\* C8 as stated: max_size >= counter in every state between two atomic
\* operations.
C8_PeakAtLeastInFlight == max_size >= counter

\* C8 amended: max_size >= counter whenever no send call stands between its
\* fetch_add and the end of its update of max_size; a call that has finished
\* the update has max_size >= its current_size; and counter exceeds max_size
\* by no more than the number of calls still updating.
C8_PeakAfterUpdate ==
    /\ Updating = {} => max_size >= counter
    /\ \A h \in Handles :
         spc[h] \in {"send", "parked", "fetch_sub"} => max_size >= current_size[h]
    /\ max_size + Cardinality(Updating) >= counter

C8_Witness ==
    /\ Updating = {}
    /\ counter = 2
    /\ max_size = 2
    /\ failedCas >= 1

\* C9: max_size never decreases, whichever way the send calls interleave and
\* whether a compare_exchange succeeds or fails.
C9_PeakMonotone == [][max_size' >= max_size]_vars

C9_Witness ==
    /\ failedCas >= 1
    /\ max_size = 2
    /\ \E h \in Handles : spc[h] = "send" /\ current_size[h] = 1

\* C10: counter is at every moment the number of messages sent and not yet
\* received, and at the end of a run that received Done get_max_buffer_size
\* returns the largest number of messages that were sent and not yet
\* received at once.
C10_PeakIsBufferPeak ==
    /\ rxOpen => counter = Undelivered
    /\ sup = "done" /\ reported # None => reported.val = peakUndelivered

\* the ScopeRule: the domain is the root's, or the fuzzy string is given and
\* the domain contains it
ScopeRule(u) ==
    /\ Domain(u) # None
    /\ \/ Domain(u) = Domain(root_url)
       \/ /\ fuzzy_match_string # None
          /\ Contains(u.host, fuzzy_match_string.val)

\* C11: a link is pushed to to_visit only if it satisfies the ScopeRule, and
\* every entry of to_visit other than the root URL satisfies it.
C11_FrontierInScope ==
    /\ [](\A i \in 1..Len(to_visit) :
            to_visit[i] = root_url \/ ScopeRule(to_visit[i]))
    /\ [][Len(to_visit') > Len(to_visit) /\ epc = "links"
            => ScopeRule(Last(to_visit'))]_vars

C11_Witness ==
    /\ fuzzy_match_string = Some(Ex)
    /\ epc = "links"
    /\ links = <<>>
    /\ url = Root
    /\ \E i \in 1..Len(to_visit) : to_visit[i].host = Mex
    /\ \A i \in 1..Len(to_visit) : to_visit[i].host # Org

\* a fetch has failed with an error other than not-found
FatalFetch ==
    \E i \in 1..Len(fetched) :
        LET r == fetch_html(site, fetched[i]) IN ~r.ok /\ r.val # "404"

\* C12: after a fetch that fails with an error other than not-found the
\* crawler fetches nothing more and sends nothing more, no Done either; the
\* failing step leaves the buffer alone, and what was sent before is still
\* in the buffer or with the supervisor.
C12_FatalFetchAborts ==
    /\ [][FatalFetch => /\ fetched' = fetched
                        /\ calls' = calls
                        /\ sent' = sent
                        /\ to_visit' = to_visit]_vars
    /\ [][~FatalFetch /\ FatalFetch' => buffer' = buffer /\ sent' = sent]_vars
    /\ [](FatalFetch => Count(sent, None) = 0)
    /\ [](FatalFetch /\ sup = "looping"
            => /\ sent = [i \in 1..Len(observed) |-> observed[i].val] \o buffer
               /\ (buffer # <<>> => ENABLED SupRecv))

C12_Witness ==
    /\ FatalFetch
    /\ epc = "aborted"
    /\ Len(sent) >= 1
    /\ Len(not_found_urls) = Len(sent)
    /\ Len(observed) > 0
    /\ Len(fetched) >= 3

\* the elements of a sequence
Range(v) == {v[i] : i \in 1..Len(v)}

\* the in-scope URLs a page links to, its hrefs resolved against base
LinkTargets(page, base) ==
    LET html_result == fetch_html(site, page) IN
    IF ~html_result.ok
    THEN {}
    ELSE {t \in {Join(base, l).val :
                    l \in {k \in Range(find_links(html_result.val)) : Join(base, k).ok}} :
            ScopeRule(t)}

\* the URLs reachable from the root through in-scope links, every href
\* resolved against the page it stands on
RECURSIVE ReachableFrom(_, _)
ReachableFrom(seen, frontier) ==
    IF frontier = {}
    THEN seen
    ELSE ReachableFrom(seen \cup frontier,
                       UNION {LinkTargets(u, u) : u \in frontier} \ (seen \cup frontier))

Reachable == ReachableFrom({}, {root_url})

\* the same with every href resolved against the root URL
RECURSIVE ReachableFromByRoot(_, _)
ReachableFromByRoot(seen, frontier) ==
    IF frontier = {}
    THEN seen
    ELSE ReachableFromByRoot(seen \cup frontier,
                             UNION {LinkTargets(u, root_url) : u \in frontier} \ (seen \cup frontier))

ReachableByRoot == ReachableFromByRoot({}, {root_url})

NotFound(u) == fetch_html(site, u) = Err("404")

\* C13: when the run completes (Done received, no fatal error, no Ctrl-C)
\* the supervisor's list holds exactly the URLs reachable from the root
\* through in-scope links whose fetch answers not-found. The right-hand side
\* does not depend on the order in which to_visit is emptied.
C13_ExactlyReachableNotFound ==
    sup = "done" => Range(not_found_urls) = {u \in Reachable : NotFound(u)}

\* what the list holds instead: the not-found URLs reachable when every href
\* is resolved against the root URL
C13_ReachableByRootNotFound ==
    sup = "done" => Range(not_found_urls) = {u \in ReachableByRoot : NotFound(u)}

\* C14: no URL is reported twice: the Found messages sent, and the
\* supervisor's list, hold each URL at most once, also when a not-found URL
\* is linked several times.
C14_ReportedOnce ==
    /\ NoDuplicates(FoundUrls(sent))
    /\ NoDuplicates(not_found_urls)

C14_Witness ==
    /\ sup = "done"
    /\ \E i, j \in 1..Len(popped) :
          /\ i < j
          /\ popped[i] = popped[j]
          /\ NotFound(popped[i])
          /\ Count(not_found_urls, popped[i]) = 1

\* a link of the page being processed is pushed to to_visit
PushesLink == epc = "links" /\ Len(to_visit') > Len(to_visit)

\* C15 as stated: a fetched URL is in visited before any of its page's links
\* is pushed, and neither a visited URL nor the page being processed is ever
\* pushed to to_visit.
C15_VisitedBeforeLinks ==
    [][PushesLink => /\ url \in Range(visited)
                     /\ Last(to_visit') # url
                     /\ Last(to_visit') \notin Range(visited)]_vars

\* C15 amended: the URL of a fetched page is added to visited only after
\* every link of the page has been looked at; a URL in visited is never
\* pushed, while the page being processed is not yet in visited and a link
\* to itself is pushed.
C15_VisitedAfterLinks ==
    /\ [][PushesLink => /\ url \notin Range(visited)
                        /\ Last(to_visit') \notin Range(visited)]_vars
    /\ [][visited' # visited => /\ visited' = Append(visited, url)
                                /\ links = <<>>
                                /\ to_visit' = to_visit]_vars
    /\ [](epc = "links" => url \notin Range(visited))

C15_Witness ==
    /\ epc = "links"
    /\ url = DP
    /\ visited # <<>>
    /\ DP \notin Range(visited)
    /\ to_visit # <<>>
    /\ Last(to_visit) = DP
    /\ A \in Range(visited)

\* C16: a link is resolved against the URL of the page it was found on: what
\* is pushed for an in-scope link is that link joined to the page's URL.
C16_ResolvedAgainstPage ==
    [][PushesLink => Ok(Last(to_visit')) = Join(url, Head(links))]_vars

\* the send steps between the fetch_add and the fetch_sub of a call
Counted == {"load", "cas", "send", "parked", "fetch_sub"}

ParseFails == epc \in {"links", "aborted"} /\ links # <<>> /\ ~Join(root_url, Head(links)).ok

\* C18: a link that does not parse aborts the run: the crawler returns at
\* that link, the page's remaining links are not pushed, nothing more is
\* fetched, nothing more is sent and no Done is sent; the link is not skipped.
C18_ParseErrorAborts ==
    /\ [][ParseFails => /\ links' = links
                        /\ to_visit' = to_visit
                        /\ visited' = visited
                        /\ fetched' = fetched
                        /\ calls' = calls
                        /\ sent' = sent
                        /\ epc' \in {"links", "aborted"}]_vars
    /\ [][ParseFails /\ epc = "links" /\ epc' # epc => epc' = "aborted"]_vars
    /\ [](ParseFails => Count(sent, None) = 0)

C18_Witness ==
    /\ ParseFails
    /\ epc = "aborted"
    /\ Len(links) >= 2
    /\ Join(root_url, links[2]).ok
    /\ ScopeRule(Join(root_url, links[2]).val)
    /\ Join(root_url, links[2]).val \notin Range(to_visit)
    /\ sup = "looping"

Ended == epc \in {"done", "aborted", "dropped"}

\* C20: the loop of the crawler terminates: an iteration takes one entry off
\* to_visit and either discards it, being in visited, or goes on to fetch it
\* and add it, new, to visited; the task ends, to_visit emptied or the run
\* aborted, and a send that waits for room in the buffer does not wait
\* forever.
C20_CrawlTerminates ==
    /\ <>Ended
    /\ [](epc = "done" => to_visit = <<>>)
    /\ (spc[Tx] = "parked" ~> spc[Tx] # "parked")
    /\ [][popped' # popped =>
            /\ Len(to_visit') = Len(to_visit) - 1
            /\ \/ Last(popped') \in Range(visited) /\ epc' = "pop"
               \/ Last(popped') \notin Range(visited) /\ epc' = "fetch"]_vars
    /\ [][visited' # visited =>
            /\ Len(visited') = Len(visited) + 1
            /\ NoDuplicates(visited')]_vars

C20_Witness ==
    /\ epc = "done"
    /\ to_visit = <<>>
    /\ peakUndelivered > BufferSize
    /\ Len(popped) > Len(visited)
    /\ sup = "done"
====
